---- MODULE Spec2Model ----
(***************************************************************************)
(* Model of src/main.rs: a FunDSP audio graph streamed to a CPAL output    *)
(* device.  main builds the graph and calls run_output, which negotiates   *)
(* the device configuration and dispatches to run_synth::<T>; run_synth    *)
(* spawns a background thread that sets the sample rate, builds and plays  *)
(* the stream and then idles.  The audio subsystem calls the data callback *)
(* (write_data) once per hardware buffer and the error callback on stream  *)
(* errors.                                                                 *)
(*                                                                         *)
(* An f64 sample value x is represented by the integer x * 10^3, so 1.0 is *)
(* One and every value the model graphs produce is exact.                  *)
(***************************************************************************)
EXTENDS Integers, Sequences, FiniteSets, TLC

\* Longest hardware buffer (in slots) handed to one data callback.
MaxLen == 7
\* Number of data callbacks observed on the stream.
MaxCallbacks == 2
\* Largest channel count the device negotiates.
MaxChannels == 4
\* Number of stream errors reported through the error callback.
MaxErrors == 1
\* Longest buffer handed to write_data when it is exercised on its own.
MaxWriterLen == 8

VARIABLES
    mainpc,         \* controller thread: position in main
    bgpc,           \* background thread: position in run_synth's closure
    proc,           \* the process: "running", "exited" or "aborted"
    graph,          \* the signal graph (Box<dyn AudioUnit64>)
    owner,          \* which thread or closure owns the graph
    config,         \* negotiated device configuration
    synthT,         \* sample type T of the run_synth instantiation
    nSynth,         \* number of run_synth instantiations started
    stream,         \* the output stream handle
    audio,          \* the audio subsystem's callback thread
    nCallbacks,     \* data callbacks delivered so far
    framesWritten,  \* frames written over all data callbacks
    cb,             \* the last data callback: its buffer and what it did
    errLog,         \* lines the error callback printed to stderr
    diag            \* panic diagnostics printed so far

vars == <<mainpc, bgpc, proc, graph, owner, config, synthT, nSynth, stream,
          audio, nCallbacks, framesWritten, cb, errLog, diag>>

Min(a, b) == IF a <= b THEN a ELSE b

\* 1.0 as an f64 sample value
One == 10^3

-----------------------------------------------------------------------------
(* The signal graph: fundsp units behind Box<dyn AudioUnit64>.             *)

\* The graph constructors main may call (line 15 and its comment).
GraphKinds == {"sine_440", "sample"}

\* Sample rates a device negotiates.
SampleRates == {44100, 48000}

\* One period of the oscillator sampled at 16 phases, peaks at +-1.0.
Osc(phase) ==
    LET p == phase % 16
    IN  (IF p <= 4 THEN p ELSE IF p <= 12 THEN 8 - p ELSE p - 16) * (One \div 4)

\* create_sine_440 / create_sample: the graph as constructed, at fundsp's
\* default sample rate until set_sample_rate is called.
create_graph(kind) ==
    [kind |-> kind, rate |-> 44100, tick |-> 0, rateSets |-> 0, gets |-> 0]

\* AudioUnit64::set_sample_rate
set_sample_rate(g, rate) ==
    [g EXCEPT !.rate = rate, !.rateSets = @ + 1]

\* The stereo pair the graph holds for its current time step.  A mono graph
\* (sine_hz) is duplicated to both sides; the sample player has two outputs
\* whose decoded data may exceed [-1.0, 1.0]; "dc" is a producer that returns
\* the constant pair (1.0, -1.0).
StereoAt(g) ==
    IF g.kind = "sine_440"
    THEN LET v == Osc(g.tick * (IF g.rate = 44100 THEN 3 ELSE 5)) IN <<v, v>>
    ELSE IF g.kind = "dc" THEN <<One, -One>>
    ELSE << (((7 * g.tick) % 23) - 11) * 127,
            (((5 * g.tick + 3) % 23) - 11) * 127 >>

\* AudioUnit64::get_stereo returns StereoAt(g) and advances the graph by one
\* sample period; g.gets counts the calls.
get_stereo(g) == [g EXCEPT !.tick = @ + 1, !.gets = @ + 1]

-----------------------------------------------------------------------------
(* Sample conversion: T::from_sample(f64), lines 93-94.                    *)

\* Rust's float-to-integer `as`: truncate toward zero, saturate at the bounds.
TruncDiv(n, d) == IF n >= 0 THEN n \div d ELSE -((-n) \div d)

Saturate(v, lo, hi) == IF v < lo THEN lo ELSE IF v > hi THEN hi ELSE v

\* Variant: a cast that wraps modulo 2^16 instead of saturating.
to_i16_wrapping(x) ==
    ((TruncDiv(x * 32768, One) + 32768) % 65536) - 32768

\* f64 -> i16: (s * 32768.0) as i16
to_i16(x) == Saturate(TruncDiv(x * 32768, One), -32768, 32767)

\* i16 -> u16: offset binary
i16_to_u16(s) == s + 32768

\* T::from_sample(x) for the three sample types run_output dispatches to.
\* f64 -> f32 is the plain cast `x as f32`; the model's values are exact in f32.
from_sample(T, x) ==
    CASE T = "f32" -> x
      [] T = "i16" -> to_i16(x)
      [] T = "u16" -> i16_to_u16(to_i16(x))

-----------------------------------------------------------------------------
(* write_data, lines 86-100.                                               *)

\* output.chunks_mut(channels): consecutive groups of `size` slots from
\* `start`; the last group holds what is left.
RECURSIVE chunks_from(_, _, _)
chunks_from(start, len, size) ==
    IF start >= len THEN <<>>
    ELSE <<[start |-> start, len |-> Min(size, len - start)]>>
         \o chunks_from(start + size, len, size)

\* Variant: chunks_exact_mut, which leaves the remainder out.
chunks_exact_mut(len, size) == chunks_from(0, len - (len % size), size)

chunks_mut(len, size) == chunks_from(0, len, size)

\* Variant: the loop bound taken inclusively, one slot past the frame.
RECURSIVE fill_frame_inclusive(_, _, _, _, _)
fill_frame_inclusive(w, frame, channel, left, right) ==
    IF channel > frame.len THEN w
    ELSE LET slot == frame.start + channel + 1
             v    == IF channel % 2 = 0 THEN left ELSE right
             w1   == IF slot \in 1..Len(w.output)
                     THEN [w EXCEPT !.output[slot] = v, !.writes[slot] = @ + 1]
                     ELSE [w EXCEPT !.oob = @ + 1]
         IN  fill_frame_inclusive(w1, frame, channel + 1, left, right)

\* Variant: only the first two channels of a frame are written.
RECURSIVE fill_frame_stereo_only(_, _, _, _, _)
fill_frame_stereo_only(w, frame, channel, left, right) ==
    IF channel >= Min(frame.len, 2) THEN w
    ELSE LET slot == frame.start + channel + 1
             v    == IF channel = 0 THEN left ELSE right
         IN  fill_frame_stereo_only(
                 [w EXCEPT !.output[slot] = v, !.writes[slot] = @ + 1],
                 frame, channel + 1, left, right)

\* Variant: left or right is chosen by the slot's index in the buffer, not by
\* its index in the frame.
RECURSIVE fill_frame_by_slot(_, _, _, _, _)
fill_frame_by_slot(w, frame, channel, left, right) ==
    IF channel >= frame.len THEN w
    ELSE LET slot == frame.start + channel + 1
             v    == IF (frame.start + channel) % 2 = 0 THEN left ELSE right
         IN  fill_frame_by_slot(
                 [w EXCEPT !.output[slot] = v, !.writes[slot] = @ + 1],
                 frame, channel + 1, left, right)

\* Variant: the value is added to what the slot holds (`+=` for `=`).
RECURSIVE fill_frame_accumulate(_, _, _, _, _)
fill_frame_accumulate(w, frame, channel, left, right) ==
    IF channel >= frame.len THEN w
    ELSE LET slot == frame.start + channel + 1
             v    == IF channel % 2 = 0 THEN left ELSE right
         IN  fill_frame_accumulate(
                 [w EXCEPT !.output[slot] = @ + v, !.writes[slot] = @ + 1],
                 frame, channel + 1, left, right)

\* Lines 96-98: the inner loop over the slots of one frame, from `channel` on.
\* w.writes counts the assignments to each slot and w.oob those outside the
\* buffer.
RECURSIVE fill_frame(_, _, _, _, _)
fill_frame(w, frame, channel, left, right) ==
    IF channel >= frame.len THEN w
    ELSE LET slot == frame.start + channel + 1
             v    == IF channel % 2 = 0 THEN left ELSE right
             w1   == IF slot \in 1..Len(w.output)
                     THEN [w EXCEPT !.output[slot] = v, !.writes[slot] = @ + 1]
                     ELSE [w EXCEPT !.oob = @ + 1]
         IN  fill_frame(w1, frame, channel + 1, left, right)

\* Variant: the closure samples a copy of the graph, which never advances.
next_sample_replay(w) ==
    [w EXCEPT !.samples = Append(@, StereoAt(w.graph)),
              !.calls = @ + 1]

\* Line 92: next_sample() is the closure of line 62, audio_graph.get_stereo().
next_sample(w) ==
    [w EXCEPT !.samples = Append(@, StereoAt(w.graph)),
              !.graph = get_stereo(@),
              !.calls = @ + 1]

\* Variant: the producer is invoked once for each side of a frame.
RECURSIVE write_frames_twice(_, _, _)
write_frames_twice(w, frames, T) ==
    IF frames = <<>> THEN w
    ELSE LET w1    == next_sample(w)
             left  == from_sample(T, w1.samples[Len(w1.samples)][1])
             w2    == next_sample(w1)
             right == from_sample(T, w2.samples[Len(w2.samples)][2])
         IN  write_frames_twice(fill_frame(w2, Head(frames), 0, left, right),
                                Tail(frames), T)

\* Lines 91-99: the outer loop over the frames still to be written.
RECURSIVE write_frames(_, _, _)
write_frames(w, frames, T) ==
    IF frames = <<>> THEN w
    ELSE LET w1     == next_sample(w)
             sample == w1.samples[Len(w1.samples)]
             left   == from_sample(T, sample[1])
             right  == from_sample(T, sample[2])
         IN  write_frames(fill_frame(w1, Head(frames), 0, left, right),
                          Tail(frames), T)

\* The record of one call: the buffer, the per-slot assignment counts, the
\* frames of the partition, the samples produced and the graph it leaves.
CallStart(output, g) ==
    [output |-> output, writes |-> [i \in 1..Len(output) |-> 0], oob |-> 0,
     frames |-> <<>>, samples |-> <<>>, calls |-> 0, graph |-> g,
     panicked |-> FALSE]

\* Variant: a chunk size of 0 yields no chunks and the call returns.
write_data_unchecked(output, channels, g, T) ==
    IF channels = 0
    THEN CallStart(output, g)
    ELSE LET frames == chunks_mut(Len(output), channels)
         IN  write_frames([CallStart(output, g) EXCEPT !.frames = frames],
                          frames, T)

\* write_data::<T>(output, channels, next_sample).  chunks_mut panics on a
\* chunk size of 0, before the loop body runs.
write_data(output, channels, g, T) ==
    IF channels = 0
    THEN [CallStart(output, g) EXCEPT !.panicked = TRUE]
    ELSE LET frames == chunks_mut(Len(output), channels)
         IN  write_frames([CallStart(output, g) EXCEPT !.frames = frames],
                          frames, T)

-----------------------------------------------------------------------------
(* The program state and its threads.                                      *)

\* Sample formats a device may negotiate; run_output handles the first three.
SampleFormats == {"F32", "I16", "U16", "I8"}

\* Variant: an unknown format falls back to f32 instead of panicking.
TypeOfFormatFallback(fmt) ==
    CASE fmt = "I16" -> "i16"
      [] fmt = "U16" -> "u16"
      [] OTHER -> "f32"

\* Lines 38-43: the match on config.sample_format().
TypeOfFormat(fmt) ==
    CASE fmt = "F32" -> "f32"
      [] fmt = "I16" -> "i16"
      [] fmt = "U16" -> "u16"
      [] OTHER -> "none"

\* Hardware buffers arrive holding arbitrary earlier contents.
PriorContents(L) == {[i \in 1..L |-> v] : v \in {0, 21845}}

NoGraph == [kind |-> "none", rate |-> 0, tick |-> 0, rateSets |-> 0, gets |-> 0]
NoConfig == [channels |-> 0, format |-> "none", rate |-> 0]
NoCallback ==
    [prior |-> <<>>, startTick |-> 0, startFrame |-> 0, errsBefore |-> 0,
     w |-> CallStart(<<>>, NoGraph)]

Init ==
    /\ mainpc = "create_graph"
    /\ bgpc = "none"
    /\ proc = "running"
    /\ graph = NoGraph
    /\ owner = "none"
    /\ config = NoConfig
    /\ synthT = "none"
    /\ nSynth = 0
    /\ stream = "none"
    /\ audio = "idle"
    /\ nCallbacks = 0
    /\ framesWritten = 0
    /\ cb = NoCallback
    /\ errLog = 0
    /\ diag = {}

\* Line 15: main builds the audio graph.
MainCreateGraph ==
    /\ proc = "running" /\ mainpc = "create_graph"
    /\ \E kind \in GraphKinds : graph' = create_graph(kind)
    /\ owner' = "main"
    /\ mainpc' = "run_output"
    /\ UNCHANGED <<bgpc, proc, config, synthT, nSynth, stream, audio,
                   nCallbacks, framesWritten, cb, errLog, diag>>

\* A panic on the main thread ends the process with a diagnostic.
MainPanic(msg) ==
    /\ mainpc' = "panicked"
    /\ proc' = "aborted"
    /\ diag' = diag \cup {msg}
    /\ owner' = "dropped"
    /\ UNCHANGED <<bgpc, graph, synthT, nSynth, stream, audio, nCallbacks,
                   framesWritten, cb, errLog>>

\* Lines 34-36: no default output device; expect() panics.
RunOutputNoDevice ==
    /\ proc = "running" /\ mainpc = "run_output"
    /\ MainPanic("failed to find a default output device")
    /\ UNCHANGED config

\* Line 37: default_output_config() fails; unwrap() panics.
RunOutputNoConfig ==
    /\ proc = "running" /\ mainpc = "run_output"
    /\ MainPanic("default_output_config")
    /\ UNCHANGED config

\* Line 43: a format other than F32, I16, U16.
RunOutputUnsupported ==
    /\ proc = "running" /\ mainpc = "run_output"
    /\ \E fmt \in SampleFormats, ch \in 0..MaxChannels, rate \in SampleRates :
         /\ TypeOfFormat(fmt) = "none"
         /\ config' = [channels |-> ch, format |-> fmt, rate |-> rate]
    /\ MainPanic("Unsupported format")

\* Lines 38-41 and 50-55: dispatch to run_synth::<T>, which moves the graph
\* into a spawned thread and returns; run_output returns to main (line 19).
RunOutputSpawn ==
    /\ proc = "running" /\ mainpc = "run_output"
    /\ \E fmt \in SampleFormats, ch \in 0..MaxChannels, rate \in SampleRates :
         /\ TypeOfFormat(fmt) # "none"
         /\ config' = [channels |-> ch, format |-> fmt, rate |-> rate]
         /\ synthT' = TypeOfFormat(fmt)
    /\ nSynth' = nSynth + 1
    /\ bgpc' = "set_sample_rate"
    /\ owner' = "background"
    /\ mainpc' = "sleep"
    /\ UNCHANGED <<proc, graph, stream, audio, nCallbacks, framesWritten, cb,
                   errLog, diag>>

\* Variant: main joins the spawned thread before it returns.
MainReturnJoins ==
    /\ proc = "running" /\ mainpc = "sleep"
    /\ bgpc = "panicked"
    /\ mainpc' = "exited"
    /\ proc' = "exited"
    /\ UNCHANGED <<bgpc, graph, owner, config, synthT, nSynth, stream, audio,
                   nCallbacks, framesWritten, cb, errLog, diag>>

\* Lines 25-27: the sleep ends, main returns and the process exits.
MainReturn ==
    /\ proc = "running" /\ mainpc = "sleep"
    /\ mainpc' = "exited"
    /\ proc' = "exited"
    /\ UNCHANGED <<bgpc, graph, owner, config, synthT, nSynth, stream, audio,
                   nCallbacks, framesWritten, cb, errLog, diag>>

\* Variant: the thread goes on to build the stream without configuring the
\* graph.
BgSetSampleRateSkipped ==
    /\ proc = "running" /\ bgpc = "set_sample_rate"
    /\ bgpc' = "build"
    /\ UNCHANGED <<mainpc, proc, graph, owner, config, synthT, nSynth, stream,
                   audio, nCallbacks, framesWritten, cb, errLog, diag>>

\* Lines 56-57: the background thread sets the negotiated sample rate.
BgSetSampleRate ==
    /\ proc = "running" /\ bgpc = "set_sample_rate"
    /\ graph' = set_sample_rate(graph, config.rate)
    /\ bgpc' = "build"
    /\ UNCHANGED <<mainpc, proc, owner, config, synthT, nSynth, stream, audio,
                   nCallbacks, framesWritten, cb, errLog, diag>>

\* A panic on the spawned thread unwinds that thread only: its locals are
\* dropped and the diagnostic is printed; the process keeps running.
BgPanic(msg) ==
    /\ bgpc' = "panicked"
    /\ stream' = IF stream = "none" THEN "none" ELSE "dropped"
    /\ owner' = "dropped"
    /\ diag' = diag \cup {msg}
    /\ UNCHANGED <<mainpc, proc, graph, config, synthT, nSynth, audio,
                   nCallbacks, framesWritten, cb, errLog>>

\* Lines 62-75: next_value captures the graph, the data callback captures
\* next_value, and build_output_stream registers both callbacks.
BgBuildStream ==
    /\ proc = "running" /\ bgpc = "build"
    /\ stream' = "built"
    /\ owner' = "callback"
    /\ bgpc' = "play"
    /\ UNCHANGED <<mainpc, proc, graph, config, synthT, nSynth, audio,
                   nCallbacks, framesWritten, cb, errLog, diag>>

\* Line 75: build_output_stream returns Err; unwrap() panics.
BgBuildStreamFails ==
    /\ proc = "running" /\ bgpc = "build"
    /\ BgPanic("build_output_stream")

\* Variant: the thread configures the graph again after the stream is built.
BgPlaySetsRate ==
    /\ proc = "running" /\ bgpc = "play"
    /\ graph' = set_sample_rate(graph, config.rate)
    /\ stream' = "playing"
    /\ bgpc' = "idle"
    /\ UNCHANGED <<mainpc, proc, owner, config, synthT, nSynth, audio,
                   nCallbacks, framesWritten, cb, errLog, diag>>

\* Line 77: stream.play() succeeds.
BgPlay ==
    /\ proc = "running" /\ bgpc = "play"
    /\ stream' = "playing"
    /\ bgpc' = "idle"
    /\ UNCHANGED <<mainpc, proc, graph, owner, config, synthT, nSynth, audio,
                   nCallbacks, framesWritten, cb, errLog, diag>>

\* Line 77: stream.play() returns Err; unwrap() panics.
BgPlayFails ==
    /\ proc = "running" /\ bgpc = "play"
    /\ BgPanic("play")

\* Variant: the idle loop ends and the closure returns, dropping the stream.
BgIdleReturns ==
    /\ proc = "running" /\ bgpc = "idle"
    /\ bgpc' = "returned"
    /\ stream' = "dropped"
    /\ UNCHANGED <<mainpc, proc, graph, owner, config, synthT, nSynth, audio,
                   nCallbacks, framesWritten, cb, errLog, diag>>

\* Lines 78-80: the idle loop.
BgIdle ==
    /\ proc = "running" /\ bgpc = "idle"
    /\ UNCHANGED vars

\* Whether the audio subsystem may call the stream's callbacks: some hosts
\* run a stream from its creation, all do once play() has succeeded.
StreamLive == proc = "running" /\ stream \in {"built", "playing"}

\* Lines 69-71: the data callback, one hardware buffer of any length.
DataCallback ==
    /\ StreamLive /\ audio # "panicked"
    /\ nCallbacks < MaxCallbacks
    /\ \E L \in 0..MaxLen : \E data \in PriorContents(L) :
         LET w == write_data(data, config.channels, graph, synthT)
         IN  /\ cb' = [prior |-> data, startTick |-> graph.tick,
                       startFrame |-> framesWritten, errsBefore |-> errLog,
                       w |-> w]
             /\ graph' = w.graph
             /\ framesWritten' = framesWritten + Len(w.frames)
             /\ audio' = IF w.panicked THEN "panicked" ELSE "called"
    /\ nCallbacks' = nCallbacks + 1
    /\ UNCHANGED <<mainpc, bgpc, proc, owner, config, synthT, nSynth, stream,
                   errLog, diag>>

\* Variant: the error callback recovers by resetting the graph and pausing
\* the stream.
ErrorCallbackRestart ==
    /\ StreamLive
    /\ errLog < MaxErrors
    /\ errLog' = errLog + 1
    /\ graph' = [graph EXCEPT !.tick = 0]
    /\ stream' = "built"
    /\ UNCHANGED <<mainpc, bgpc, proc, owner, config, synthT, nSynth, audio,
                   nCallbacks, framesWritten, cb, diag>>

\* Line 65: err_fn prints one line to stderr.
ErrorCallback ==
    /\ StreamLive
    /\ errLog < MaxErrors
    /\ errLog' = errLog + 1
    /\ UNCHANGED <<mainpc, bgpc, proc, graph, owner, config, synthT, nSynth,
                   stream, audio, nCallbacks, framesWritten, cb, diag>>

Next ==
    \/ MainCreateGraph
    \/ RunOutputNoDevice
    \/ RunOutputNoConfig
    \/ RunOutputUnsupported
    \/ RunOutputSpawn
    \/ MainReturn
    \/ BgSetSampleRate
    \/ BgBuildStream
    \/ BgBuildStreamFails
    \/ BgPlay
    \/ BgPlayFails
    \/ BgIdle
    \/ DataCallback
    \/ ErrorCallback

Spec == Init /\ [][Next]_vars

-----------------------------------------------------------------------------
(* write_data on its own: one call on any buffer, with any producer.       *)

\* The producers next_sample may be: the graphs of main and a constant one.
Producers == GraphKinds \cup {"dc"}

\* Any earlier contents of a buffer of L slots.
AnyContents(L) == [1..L -> {0, 21845}]

\* A stream that is playing, for any negotiated configuration and producer.
WriterInit ==
    /\ mainpc = "sleep"
    /\ bgpc = "idle"
    /\ proc = "running"
    /\ \E kind \in Producers, fmt \in SampleFormats, ch \in 0..MaxChannels,
          rate \in SampleRates :
         /\ TypeOfFormat(fmt) # "none"
         /\ graph = set_sample_rate(create_graph(kind), rate)
         /\ config = [channels |-> ch, format |-> fmt, rate |-> rate]
         /\ synthT = TypeOfFormat(fmt)
    /\ owner = "callback"
    /\ nSynth = 1
    /\ stream = "playing"
    /\ audio = "idle"
    /\ nCallbacks = 0
    /\ framesWritten = 0
    /\ cb = NoCallback
    /\ errLog = 0
    /\ diag = {}

\* Lines 69-71 and 86-100: one call of write_data on a buffer of any length
\* and contents.
WriteDataCall ==
    /\ StreamLive /\ nCallbacks = 0
    /\ \E L \in 0..MaxWriterLen : \E data \in AnyContents(L) :
         LET w == write_data(data, config.channels, graph, synthT)
         IN  /\ cb' = [prior |-> data, startTick |-> graph.tick,
                       startFrame |-> framesWritten, errsBefore |-> errLog,
                       w |-> w]
             /\ graph' = w.graph
             /\ framesWritten' = framesWritten + Len(w.frames)
             /\ audio' = IF w.panicked THEN "panicked" ELSE "called"
    /\ nCallbacks' = nCallbacks + 1
    /\ UNCHANGED <<mainpc, bgpc, proc, owner, config, synthT, nSynth, stream,
                   errLog, diag>>

WriterSpec == WriterInit /\ [][WriteDataCall]_vars

\* Lines 69-71: a data callback on a stream whose buffer before it, if any,
\* held whole frames.
CallbackAfterWholeFrames ==
    /\ StreamLive /\ audio # "panicked"
    /\ nCallbacks < MaxCallbacks
    /\ config.channels >= 1
    /\ Len(cb.prior) % config.channels = 0
    /\ \E L \in 0..MaxLen : \E data \in PriorContents(L) :
         LET w == write_data(data, config.channels, graph, synthT)
         IN  /\ cb' = [prior |-> data, startTick |-> graph.tick,
                       startFrame |-> framesWritten, errsBefore |-> errLog,
                       w |-> w]
             /\ graph' = w.graph
             /\ framesWritten' = framesWritten + Len(w.frames)
             /\ audio' = IF w.panicked THEN "panicked" ELSE "called"
    /\ nCallbacks' = nCallbacks + 1
    /\ UNCHANGED <<mainpc, bgpc, proc, owner, config, synthT, nSynth, stream,
                   errLog, diag>>

\* Consecutive data callbacks on a playing stream, each after whole frames.
ConsecutiveSpec == WriterInit /\ [][CallbackAfterWholeFrames]_vars

\* The steps of the controller thread (main, lines 11-27).
MainNext ==
    \/ MainCreateGraph
    \/ RunOutputNoDevice
    \/ RunOutputNoConfig
    \/ RunOutputUnsupported
    \/ RunOutputSpawn
    \/ MainReturn

\* The operating system keeps scheduling the main thread, and its sleep of
\* line 26 is a timed one: a step main can take is eventually taken.
FairSpec == Spec /\ WF_vars(MainNext)

-----------------------------------------------------------------------------
(* Properties of write_data, stated on the last data callback.             *)

\* The channel count N and the buffer length L of the last data callback.
CbN == config.channels
CbL == Len(cb.prior)

\* A data callback has run and its write_data call returned, with N >= 1.
CbReturned == nCallbacks > 0 /\ CbN >= 1 /\ ~cb.w.panicked

\* The slots the last call assigned at least once.
SlotsWritten == {i \in 1..CbL : cb.w.writes[i] > 0}

\* The converted component of `sample` that channel index c receives.
SideOf(sample, c) ==
    from_sample(synthT, IF c % 2 = 0 THEN sample[1] ELSE sample[2])

\* C1: for every N >= 1 and every L >= 0, when write_data returns every slot
\* 0..L-1 of the buffer has been assigned exactly once during the call, and
\* no assignment fell outside the buffer.
C1_EverySlotAssignedOnce ==
    (nCallbacks > 0 /\ CbN >= 1) =>
        /\ ~cb.w.panicked
        /\ Len(cb.w.output) = CbL
        /\ \A i \in 1..CbL : cb.w.writes[i] = 1
        /\ cb.w.oob = 0

C1_Witness ==
    /\ CbReturned /\ CbN = 2 /\ CbL = 7
    /\ \A i \in 1..7 : cb.w.writes[i] = 1

\* C2 as stated: write_data writes exactly L - (L mod N) slots and the
\* trailing L mod N slots keep the value they had before the call.
C2_AsStated ==
    CbReturned =>
        /\ Cardinality(SlotsWritten) = CbL - (CbL % CbN)
        /\ \A i \in (CbL - (CbL % CbN) + 1)..CbL :
               cb.w.writes[i] = 0 /\ cb.w.output[i] = cb.prior[i]

\* C2 amended: write_data writes exactly L slots: those of the complete
\* frames and the trailing L mod N slots as well, which are filled as a short
\* last frame from one further sample.
C2_WritesAllSlots ==
    CbReturned =>
        /\ Cardinality(SlotsWritten) = CbL
        /\ \A i \in (CbL - (CbL % CbN) + 1)..CbL :
               /\ cb.w.writes[i] = 1
               /\ Len(cb.w.samples) = CbL \div CbN + 1
               /\ cb.w.output[i] =
                      SideOf(cb.w.samples[CbL \div CbN + 1], (i - 1) % CbN)

C2_Witness ==
    /\ CbReturned /\ CbN = 2 /\ CbL = 7 /\ synthT = "i16"
    /\ cb.w.writes[7] = 1
    /\ cb.w.output[7] # cb.prior[7]

\* C3 as stated: one call invokes the sample producer exactly floor(L / N)
\* times.
C3_AsStated ==
    CbReturned => cb.w.calls = CbL \div CbN

\* C3 amended: one call invokes the sample producer exactly ceil(L / N)
\* times: floor(L / N) when L is a multiple of N, floor(L / N) + 1 otherwise.
C3_CallsCeil ==
    CbReturned =>
        /\ cb.w.calls = (IF CbL % CbN = 0 THEN CbL \div CbN
                                           ELSE CbL \div CbN + 1)
        /\ cb.w.graph.gets = cb.startTick + cb.w.calls

C3_Witness ==
    CbReturned /\ CbN = 2 /\ CbL = 7 /\ cb.w.calls = 4

\* C4: after write_data, in every complete frame f every even channel index
\* holds the converted left component and every odd channel index the
\* converted right component of the one sample produced for frame f.
C4_EvenLeftOddRight ==
    CbReturned =>
        \A f \in 0..(CbL \div CbN - 1) : \A c \in 0..(CbN - 1) :
            /\ f + 1 <= Len(cb.w.samples)
            /\ cb.w.samples[f + 1] = StereoAt([graph EXCEPT !.tick = cb.startTick + f])
            /\ cb.w.output[f * CbN + c + 1] = SideOf(cb.w.samples[f + 1], c)

C4_Witness ==
    /\ CbReturned /\ CbN = 4 /\ CbL >= 4 /\ graph.kind = "sample"
    /\ cb.w.output[1] = cb.w.output[3]
    /\ cb.w.output[2] = cb.w.output[4]
    /\ cb.w.output[1] # cb.w.output[2]

\* C5: write_data partitions the buffer into consecutive groups of N slots,
\* the last of which may be shorter, and for each group, the short one
\* included, it invokes the producer once and fills all slots of the group
\* from that one sample.
C5_OneSamplePerGroup ==
    CbReturned =>
        LET fr == cb.w.frames
            m  == Len(fr)
        IN  /\ (m = 0) = (CbL = 0)
            /\ m > 0 => fr[1].start = 0 /\ fr[m].start + fr[m].len = CbL
            /\ \A j \in 1..m :
                   /\ fr[j].len \in 1..CbN
                   /\ j < m => fr[j].len = CbN /\ fr[j + 1].start = fr[j].start + CbN
            /\ cb.w.calls = m
            /\ Len(cb.w.samples) = m
            /\ \A j \in 1..m : \A c \in 0..(fr[j].len - 1) :
                   /\ cb.w.writes[fr[j].start + c + 1] = 1
                   /\ cb.w.output[fr[j].start + c + 1] = SideOf(cb.w.samples[j], c)

C5_Witness ==
    /\ CbReturned /\ CbN = 4 /\ CbL = 7 /\ graph.kind = "sample"
    /\ Len(cb.w.frames) = 2 /\ cb.w.frames[2].len = 3
    /\ cb.w.calls = 2
    /\ cb.w.output[5] = cb.w.output[7]
    /\ cb.w.output[5] # cb.w.output[1]

-----------------------------------------------------------------------------
(* Properties of the stream and of the threads.                            *)

\* The graph as it stands at time step k.
GraphAt(k) == [graph EXCEPT !.tick = k]

C7_SampleRateSetOnceFirst ==
    /\ graph.rateSets <= 1
    /\ bgpc \in {"none", "set_sample_rate"} =>
           graph.rateSets = 0 /\ graph.gets = 0 /\ stream = "none"
    /\ (bgpc \in {"build", "play", "idle", "panicked"}
            \/ stream # "none" \/ graph.gets > 0) =>
           graph.rateSets = 1 /\ graph.rate = config.rate

C7_Witness ==
    /\ nCallbacks = 2 /\ graph.gets > 0
    /\ graph.rateSets = 1 /\ graph.rate = 48000 /\ config.rate = 48000

\* C8 as stated: a failure to build or to start the stream is fatal to the
\* process: the process aborts at that point and the controller thread does
\* not complete its sleep with no audio running.
C8_AsStated ==
    bgpc = "panicked" => proc = "aborted" /\ mainpc # "exited"

\* C9: without a default output device or with a sample format other than
\* F32, I16, U16, run_output aborts the process before a thread is spawned,
\* before set_sample_rate and before any sample; for F32, I16 and U16 it
\* starts exactly one run_synth instantiation, of the matching sample type.
C9_SetupFailuresAbortFirst ==
    /\ nSynth <= 1
    /\ mainpc = "panicked" =>
           /\ proc = "aborted" /\ diag # {}
           /\ bgpc = "none" /\ nSynth = 0 /\ synthT = "none"
           /\ graph.rateSets = 0 /\ graph.gets = 0 /\ stream = "none"
    /\ mainpc \in {"sleep", "exited", "panicked"} =>
           /\ config.format \notin {"F32", "I16", "U16"} => mainpc = "panicked"
           /\ config.format = "F32" => nSynth = 1 /\ synthT = "f32"
           /\ config.format = "I16" => nSynth = 1 /\ synthT = "i16"
           /\ config.format = "U16" => nSynth = 1 /\ synthT = "u16"

C9_Witness ==
    /\ mainpc = "panicked" /\ proc = "aborted"
    /\ config.format = "I8" /\ "Unsupported format" \in diag
    /\ bgpc = "none" /\ graph.rateSets = 0

\* C10: a stream error reported through the error callback only adds a log
\* line: graph, stream, both threads and the process stay as they are; and a
\* later data callback starts from the graph state the previous data callback
\* left.
C10_ErrorCallbackOnlyLogs ==
    [][ /\ errLog' # errLog =>
              /\ errLog' = errLog + 1
              /\ UNCHANGED <<mainpc, bgpc, proc, graph, owner, config, synthT,
                             nSynth, stream, audio, nCallbacks, framesWritten,
                             cb, diag>>
        /\ (nCallbacks' # nCallbacks /\ nCallbacks > 0) =>
              /\ graph = cb.w.graph
              /\ cb'.startTick = cb.w.graph.tick
      ]_vars

C10_Witness ==
    /\ nCallbacks = 2 /\ errLog = 1 /\ cb.errsBefore = 1
    /\ cb.startTick > 0 /\ cb.w.calls > 0
    /\ stream = "playing" /\ bgpc = "idle" /\ proc = "running"

\* C11: the controller never waits on the background thread: run_output
\* returns once the thread is spawned, the sleep can always end whatever the
\* background thread is doing, so the process eventually ends; once it has
\* ended no data callback runs and the graph is not advanced again.
C11_ControllerAlwaysExits ==
    /\ [](mainpc = "sleep" => (nSynth = 1 /\ bgpc # "none" /\ ENABLED MainReturn))
    /\ <>(proc # "running")
    /\ [][ /\ (mainpc = "sleep" /\ proc' # "running") => proc' = "exited"
          /\ proc # "running" =>
                (nCallbacks' = nCallbacks /\ graph' = graph /\ cb' = cb)
        ]_vars

C11_Witness ==
    /\ proc = "exited" /\ mainpc = "exited"
    /\ bgpc = "idle" /\ stream = "playing"
    /\ nCallbacks = 1 /\ graph.gets > 0

\* C12: once stream.play() has succeeded the background thread stays in its
\* idle loop and keeps the stream handle for as long as the process runs: no
\* step of the controller, of a callback or of the thread itself stops the
\* stream or ends the thread; playback ends only with the process.
C12_PlaybackOnlyEndsAtExit ==
    /\ [](bgpc = "idle" => (stream = "playing" /\ owner = "callback"))
    /\ [][ /\ (bgpc = "idle" /\ proc' = "running") => bgpc' = "idle"
           /\ stream = "playing" => stream' = "playing"
           /\ (stream = "playing" /\ proc = "running" /\ proc' # "running") =>
                  (mainpc' = "exited" /\ proc' = "exited")
         ]_vars

C12_Witness ==
    /\ bgpc = "idle" /\ stream = "playing" /\ proc = "running"
    /\ mainpc = "sleep" /\ nCallbacks = 2 /\ errLog = 1

\* The order in which the graph changes hands.
OwnerRank(o) ==
    CASE o = "none" -> 0
      [] o = "main" -> 1
      [] o = "background" -> 2
      [] o = "callback" -> 3
      [] o = "dropped" -> 4

\* C13: the graph has one owner at a time: the controller until it calls
\* run_output, then the background thread, which only sets the sample rate
\* before the stream is built, then the data callback alone; every change of
\* the graph is made by its owner of that moment, ownership never goes back,
\* and the controller and the data callback write no state in common.
C13_SingleGraphOwner ==
    /\ []( /\ owner = "main" => mainpc = "run_output"
           /\ mainpc \in {"sleep", "exited"} =>
                  owner \in {"background", "callback", "dropped"}
           /\ owner = "background" =>
                  (bgpc \in {"set_sample_rate", "build"} /\ stream = "none")
           /\ stream \in {"built", "playing"} => owner = "callback"
           /\ graph.gets > 0 => owner \in {"callback", "dropped"} )
    /\ [][ /\ graph' # graph =>
                \/ /\ owner = "none" /\ mainpc = "create_graph"
                   /\ mainpc' = "run_output"
                \/ /\ owner = "background" /\ bgpc = "set_sample_rate"
                   /\ stream = "none"
                   /\ graph'.tick = graph.tick /\ graph'.gets = graph.gets
                \/ /\ owner = "callback" /\ nCallbacks' = nCallbacks + 1
                   /\ graph'.rateSets = graph.rateSets
                   /\ graph'.rate = graph.rate
           /\ OwnerRank(owner') >= OwnerRank(owner)
           /\ nCallbacks' # nCallbacks =>
                UNCHANGED <<mainpc, proc, bgpc, stream, owner, config, synthT,
                            nSynth, errLog, diag>>
           /\ (mainpc = "sleep" /\ mainpc' # mainpc) =>
                UNCHANGED <<graph, owner, cb, nCallbacks, framesWritten, audio,
                            stream, bgpc>>
         ]_vars

C13_Witness ==
    /\ owner = "callback" /\ mainpc = "sleep" /\ bgpc = "idle"
    /\ graph.rateSets = 1 /\ graph.gets > 0 /\ nCallbacks = 2

-----------------------------------------------------------------------------
(* Properties of the conversion and of write_data as a function.           *)

\* The largest and smallest value of a sample type: the bounds of the integer
\* types, and full scale 1.0 and -1.0 for f32.
MaxOf(T) ==
    CASE T = "f32" -> One
      [] T = "i16" -> 32767
      [] T = "u16" -> 65535

MinOf(T) ==
    CASE T = "f32" -> -One
      [] T = "i16" -> -32768
      [] T = "u16" -> 0

\* The f64 component that went into slot c of frame j of the last call.
SourceOf(j, c) == cb.w.samples[j][IF c % 2 = 0 THEN 1 ELSE 2]

GraphBefore == [graph EXCEPT !.tick = cb.startTick, !.gets = cb.startTick]

\* The same call as the last one, on a buffer of the same length that held
\* zeros.
CallOnZeros ==
    write_data([i \in 1..CbL |-> 0], CbN, GraphBefore, synthT)

\* C15: write_data never reads the buffer it is given: whatever the buffer
\* held before, a call with the same N, L and produced samples assigns the
\* same slots the same values and invokes the producer as often (every run
\* agrees with the run on a zeroed buffer, so any two runs agree).
C15_IgnoresPriorContents ==
    CbReturned =>
        /\ CallOnZeros.calls = cb.w.calls
        /\ CallOnZeros.samples = cb.w.samples
        /\ CallOnZeros.writes = cb.w.writes
        /\ CallOnZeros.graph = cb.w.graph
        /\ \A i \in 1..CbL :
               cb.w.writes[i] > 0 => CallOnZeros.output[i] = cb.w.output[i]

C15_Witness ==
    /\ CbReturned /\ CbN = 2 /\ CbL = 5
    /\ cb.prior = <<21845, 0, 21845, 21845, 0>>
    /\ cb.w.calls = 3
    /\ cb.w.output = CallOnZeros.output

\* C16: the graph is the only state carried from one data callback to the
\* next: for N >= 1 and L1 a multiple of N, two consecutive callbacks on
\* buffers of L1 and L2 slots write, taken together, the slot values of one
\* callback on L1 + L2 slots from the same graph state, with as many producer
\* invocations and the same graph left behind; the second buffer starts again
\* at channel index 0.
C16_CallbackSizeIndependence ==
    [][ (nCallbacks' = nCallbacks + 1 /\ nCallbacks > 0 /\ CbN >= 1
            /\ CbL % CbN = 0) =>
           LET single == write_data(cb.prior \o cb'.prior, CbN, GraphBefore,
                                    synthT)
           IN  /\ single.output = cb.w.output \o cb'.w.output
               /\ single.calls = cb.w.calls + cb'.w.calls
               /\ single.samples = cb.w.samples \o cb'.w.samples
               /\ single.graph = cb'.w.graph
               /\ Len(cb'.prior) > 0 =>
                      /\ cb'.w.frames[1].start = 0
                      /\ cb'.w.output[1] = SideOf(cb'.w.samples[1], 0)
      ]_vars

C16_Witness ==
    /\ nCallbacks = 2 /\ CbN = 3 /\ graph.kind = "sample"
    /\ cb.startFrame = 1 /\ CbL = 5
    /\ cb.w.calls = 2 /\ graph.gets = 3
    /\ cb.w.output[1] = cb.w.output[3]
    /\ cb.w.output[1] # cb.w.output[2]

\* C17: with a channel count of 0 a call of write_data panics before it
\* invokes the producer and before it writes a slot: it does not return
\* normally, the buffer and the graph are as they were, and no further data
\* callback runs on the panicked callback thread.
C17_ZeroChannelsPanics ==
    (nCallbacks > 0 /\ CbN = 0) =>
        /\ cb.w.panicked /\ audio = "panicked"
        /\ cb.w.calls = 0 /\ cb.w.samples = <<>> /\ cb.w.frames = <<>>
        /\ graph.gets = 0 /\ graph.tick = 0 /\ framesWritten = 0
        /\ cb.w.output = cb.prior
        /\ \A i \in 1..CbL : cb.w.writes[i] = 0
        /\ nCallbacks = 1

C17_Witness ==
    /\ nCallbacks = 1 /\ CbN = 0 /\ CbL = 4
    /\ cb.w.panicked /\ cb.w.calls = 0
    /\ cb.w.output = cb.prior /\ cb.prior[1] = 21845

====
